---- MODULE Spec2Model ----
(***************************************************************************)
(* Model of the portfolio single-page application: the static dataset      *)
(* (data/mockData.js), the route table (App.js), the header                *)
(* (components/Header.jsx), the blog list view (pages/BlogPage.jsx) and    *)
(* the blog detail view with its markdown loader (pages/BlogPostPage.jsx). *)
(*                                                                         *)
(* Strings are sequences of one-character strings over Chars, so that      *)
(* toLowerCase, includes and === are computed and not assumed.             *)
(***************************************************************************)
EXTENDS Integers, Sequences, FiniteSets, TLC

VARIABLES
    blogPosts,        \* the blogPosts table of data/mockData.js
    projects,         \* the projects table of data/mockData.js
    location,         \* location.pathname, as its sequence of path segments
    isMenuOpen,       \* Header: useState(false)
    oddToggles,       \* an odd number of toggle clicks since the last nav-link
                      \* click, or since load (history)
    searchQuery,      \* BlogPage: useState('')
    selectedTag,      \* BlogPage: useState(null)
    markdownContent,  \* BlogPostPage: useState('')
    loading,          \* BlogPostPage: useState(true)
    pending,          \* the mounted detail view's fetches that have not settled
    shown,            \* the settlement that last wrote markdownContent (history)
    uncaught          \* TRUE once a rejection escaped the promise chain

vars == <<blogPosts, projects, location, isMenuOpen, oddToggles, searchQuery,
          selectedTag, markdownContent, loading, pending, shown, uncaught>>

(***************************************************************************)
(* Bounds of the model.                                                    *)
(***************************************************************************)
\* longest search query typed into the search box
MaxQueryLen == 2
\* most fetches in flight at once
MaxPending == 2
\* most records of a generated projects table
MaxProjects == 3
\* most records of a projects table generated for the home page
MaxHomeProjects == 4

(***************************************************************************)
(* Strings.                                                                *)
(***************************************************************************)
Chars == {"a", "A", "b", "B"}

\* String.prototype.toLowerCase on one character
Lower(c) == CASE c = "A" -> "a" [] c = "B" -> "b" [] OTHER -> c

\* String.prototype.toLowerCase
ToLowerCase(s) == [i \in 1..Len(s) |-> Lower(s[i])]

\* String.prototype.includes: q occurs in s as a contiguous substring
Includes(s, q) ==
    \E i \in 0..(Len(s) - Len(q)) : SubSeq(s, i + 1, i + Len(q)) = q

\* all strings over Chars of length at most n
StringsUpTo(n) == UNION {[1..k -> Chars] : k \in 0..n}

\* the values of e.target.value the model types into the search box
Queries == StringsUpTo(MaxQueryLen)

\* JavaScript null / undefined (no string over Chars equals it)
Null == <<"null">>

\* JavaScript truthiness of a string-or-null value: null and '' are falsy
Falsy(v) == v = Null \/ v = <<>>

(***************************************************************************)
(* The static dataset.                                                     *)
(***************************************************************************)
Post(id, title, excerpt, tags, file, published) ==
    [id |-> id, title |-> title, excerpt |-> excerpt, tags |-> tags,
     markdownFile |-> file, published |-> published]

Md(name) == name \o <<".md">>

\* The table as shipped: four posts, all published, tags shared between posts.
ShippedPosts ==
    << Post(<<"a">>, <<"A", "b">>, <<"a", "a">>,
            << <<"A">>, <<"B">> >>, Md(<<"a">>), TRUE),
       Post(<<"b">>, <<"B", "a">>, <<"b">>,
            << <<"A", "b">>, <<"B">> >>, Md(<<"b">>), TRUE),
       Post(<<"a", "b">>, <<"b", "B">>, <<"A">>,
            << <<"b">> >>, Md(<<"a", "b">>), TRUE),
       Post(<<"b", "a">>, <<"a">>, <<"B", "A", "b">>,
            << <<"a">>, <<"A">> >>, Md(<<"b", "a">>), TRUE) >>

\* A table with drafts: published = false on some posts, a tag carried only
\* by a draft, ids that differ only in case, a file name unlike the id.
DraftPosts ==
    << Post(<<"a">>, <<"A", "b">>, <<"b">>,
            << <<"A">>, <<"b", "B">> >>, Md(<<"a">>), FALSE),
       Post(<<"A">>, <<"a", "B">>, <<"a", "a">>,
            << <<"A">>, <<"a">> >>, Md(<<"b", "b">>), TRUE),
       Post(<<"b">>, <<"b">>, <<"B", "a">>,
            << <<"a">> >>, Md(<<"b">>), FALSE),
       Post(<<"a", "b">>, <<"B">>, <<"A", "B">>,
            << <<"B">>, <<"A">> >>, Md(<<"a", "b">>), TRUE),
       Post(<<"b", "a">>, <<"b", "a">>, <<"a">>,
            << <<"A", "b">> >>, Md(<<"b", "a">>), TRUE),
       Post(<<"B">>, <<"a", "b">>, <<"B">>,
            << <<"a">>, <<"B">> >>, Md(<<"B">>), TRUE) >>

\* A short table: one published post and one draft.
ShortPosts ==
    << Post(<<"b">>, <<"B", "b">>, <<"a", "B">>,
            << <<"b">> >>, Md(<<"b">>), TRUE),
       Post(<<"a">>, <<"a">>, <<"A", "b">>,
            << <<"b">>, <<"A">> >>, Md(<<"a">>), FALSE) >>

Datasets == {ShippedPosts, DraftPosts, ShortPosts}

\* a URL string of a project record
CodeUrl == <<"https://github.com/">>
DemoUrl == <<"https://demo/">>

Project(id, github, liveUrl, featured) ==
    [id |-> id, github |-> github, liveUrl |-> liveUrl, featured |-> featured]

\* The projects table as shipped: every project has a repository, the third
\* alone has a live demo, the fourth is not featured.
ShippedProjects ==
    << Project(1, CodeUrl, Null, TRUE),
       Project(2, CodeUrl, Null, TRUE),
       Project(3, CodeUrl, DemoUrl, TRUE),
       Project(4, CodeUrl, Null, FALSE) >>

\* every projects table of at most MaxProjects records, each with or without
\* a repository URL, with or without a demo URL, featured or not
ProjectTables ==
    LET Choices == [github : {Null, CodeUrl}, liveUrl : {Null, DemoUrl},
                    featured : BOOLEAN]
        Table(f) == [i \in 1..Len(f) |->
                        Project(i, f[i].github, f[i].liveUrl, f[i].featured)]
    IN  UNION {{Table(f) : f \in [1..k -> Choices]} : k \in 0..MaxProjects}

\* every projects table of at most MaxHomeProjects records, each featured or
\* not (the home page reads no URL of a project)
HomeProjectTables ==
    LET Table(f) == [i \in 1..Len(f) |-> Project(i, CodeUrl, Null, f[i])]
    IN  UNION {{Table(f) : f \in [1..k -> BOOLEAN]} : k \in 0..MaxHomeProjects}


(***************************************************************************)
(* Route table (App.js) and the paths the model navigates to.              *)
(***************************************************************************)
HomePath     == << >>
AboutPath    == << <<"about">> >>
BlogPath     == << <<"blog">> >>
ProjectsPath == << <<"projects">> >>
ContactPath  == << <<"contact">> >>

\* `/blog/${id}`
BlogPostPath(id) == << <<"blog">>, id >>

\* RouteMatch, had a catch-all <Route path="*"> to the home page been declared
RouteMatchCatchAllHome(path) ==
    CASE path = HomePath -> "HomePage"
      [] path = AboutPath -> "AboutPage"
      [] path = BlogPath -> "BlogPage"
      [] Len(path) = 2 /\ path[1] = <<"blog">> /\ path[2] # <<>> -> "BlogPostPage"
      [] path = ProjectsPath -> "ProjectsPage"
      [] path = ContactPath -> "ContactPage"
      [] OTHER -> "HomePage"

\* RouteMatch, had the detail route been declared as /blog/:slug/*
RouteMatchSlugSplat(path) ==
    CASE path = HomePath -> "HomePage"
      [] path = AboutPath -> "AboutPage"
      [] path = BlogPath -> "BlogPage"
      [] Len(path) >= 2 /\ path[1] = <<"blog">> /\ path[2] # <<>> -> "BlogPostPage"
      [] path = ProjectsPath -> "ProjectsPage"
      [] path = ContactPath -> "ContactPage"
      [] OTHER -> "none"

\* <Routes>: the element the path dispatches to, "none" when no route matches
RouteMatch(path) ==
    CASE path = HomePath -> "HomePage"
      [] path = AboutPath -> "AboutPage"
      [] path = BlogPath -> "BlogPage"
      [] Len(path) = 2 /\ path[1] = <<"blog">> /\ path[2] # <<>> -> "BlogPostPage"
      [] path = ProjectsPath -> "ProjectsPage"
      [] path = ContactPath -> "ContactPage"
      [] OTHER -> "none"

\* useParams().slug
SlugOf(path) == IF RouteMatch(path) = "BlogPostPage" THEN path[2] ELSE Null

\* slugs entered by hand or reached through the history
Slugs == {<<"a">>, <<"A">>, <<"b">>, <<"a", "a">>}

\* every path the history can hold
Paths ==
    {HomePath, AboutPath, BlogPath, ProjectsPath, ContactPath}
        \cup {BlogPostPath(s) : s \in Slugs}
        \cup {<< <<"resume">> >>, << <<"blog">>, <<"a">>, <<"edit">> >>}

(***************************************************************************)
(* Header (components/Header.jsx).                                         *)
(***************************************************************************)
navLinks == <<HomePath, AboutPath, BlogPath, ProjectsPath, ContactPath>>

\* MenuAfterNavClick, had the nav links no onClick
MenuAfterNavClickKept(open) == open

\* a nav link's onClick: setIsMenuOpen(false)
MenuAfterNavClick(open) == FALSE

\* the toggle button's onClick: setIsMenuOpen(!isMenuOpen)
MenuAfterToggle(open) == ~open

\* MenuAfterNavigation, had the header closed the menu on every location change
MenuAfterNavigationClosed(open) == FALSE

\* the menu flag after a location change the nav links did not cause: no
\* other <Link> has an onClick and no effect of Header depends on location
MenuAfterNavigation(open) == open

\* isActive, had it been location.pathname.startsWith(path)
isActiveByPrefix(path) ==
    Len(path) <= Len(location) /\ SubSeq(location, 1, Len(path)) = path

\* isActive(path): location.pathname === path
isActive(path) == location = path

\* the nav entries rendered with className "nav-link active"
ActiveNavLinks == {i \in 1..Len(navLinks) : isActive(navLinks[i])}

(***************************************************************************)
(* Blog list view (pages/BlogPage.jsx).                                    *)
(***************************************************************************)
\* Array.prototype.includes on a tag list: some element === tag
TagsInclude(tags, tag) == \E i \in 1..Len(tags) : tags[i] = tag

\* MatchesSearch, had the two toLowerCase() calls on the query been left out
MatchesSearchCaseSensitive(post, query) ==
    \/ Includes(ToLowerCase(post.title), query)
    \/ Includes(ToLowerCase(post.excerpt), query)

\* matchesSearch
MatchesSearch(post, query) ==
    \/ Includes(ToLowerCase(post.title), ToLowerCase(query))
    \/ Includes(ToLowerCase(post.excerpt), ToLowerCase(query))

\* MatchesTag, had the labels been compared ignoring case
MatchesTagIgnoringCase(post, tag) ==
    \/ Falsy(tag)
    \/ \E i \in 1..Len(post.tags) : ToLowerCase(post.tags[i]) = ToLowerCase(tag)

\* matchesTag
MatchesTag(post, tag) == Falsy(tag) \/ TagsInclude(post.tags, tag)

\* FilterKeeps, had `&& post.published` been left out
FilterKeepsDrafts(post, query, tag) ==
    MatchesSearch(post, query) /\ MatchesTag(post, tag)

\* FilterKeeps, had the tag been applied only while the search box is empty
FilterKeepsTagOrQuery(post, query, tag) ==
    /\ IF query = <<>> THEN MatchesTag(post, tag) ELSE MatchesSearch(post, query)
    /\ post.published

\* the callback of blogPosts.filter
FilterKeeps(post, query, tag) ==
    MatchesSearch(post, query) /\ MatchesTag(post, tag) /\ post.published

\* FilterPosts, had the kept posts been listed newest last (a reverse() added)
FilterPostsReversed(posts, query, tag) ==
    LET Keep(post) == FilterKeeps(post, query, tag)
        kept == SelectSeq(posts, Keep)
    IN  [i \in 1..Len(kept) |-> kept[Len(kept) + 1 - i]]

\* blogPosts.filter(...): the kept posts in table order
FilterPosts(posts, query, tag) ==
    LET Keep(post) == FilterKeeps(post, query, tag)
    IN  SelectSeq(posts, Keep)

filteredPosts == FilterPosts(blogPosts, searchQuery, selectedTag)

\* FlatTags, had the drafts been filtered out before flatMap
RECURSIVE FlatTagsOfPublished(_)
FlatTagsOfPublished(posts) ==
    IF posts = <<>> THEN <<>>
    ELSE (IF Head(posts).published THEN Head(posts).tags ELSE <<>>)
            \o FlatTagsOfPublished(Tail(posts))

\* posts.flatMap(post => post.tags)
RECURSIVE FlatTags(_)
FlatTags(posts) ==
    IF posts = <<>> THEN <<>> ELSE Head(posts).tags \o FlatTags(Tail(posts))

\* [...new Set(list)]: first occurrences, in order
RECURSIVE Unique(_)
Unique(list) ==
    IF list = <<>> THEN <<>>
    ELSE LET front == Unique(SubSeq(list, 1, Len(list) - 1))
             last  == list[Len(list)]
         IN  IF \E i \in 1..Len(front) : front[i] = last
             THEN front ELSE Append(front, last)

allTags == Unique(FlatTags(blogPosts))


(***************************************************************************)
(* Blog detail view and its loader (pages/BlogPostPage.jsx).               *)
(***************************************************************************)
\* the body set by the catch handler
Fallback == <<"# Error loading article", "\n\n",
              "Sorry, this article could not be loaded.">>

\* response bodies the server may send (also with a non-success status)
Bodies == {<<>>, <<"A", "b">>}

\* what a rejected promise carries
Errors == {"TypeError: Failed to fetch", "AbortError"}

\* FindPost, had the comparison ignored case
FindPostIgnoringCase(posts, slug) ==
    IF \E i \in 1..Len(posts) : ToLowerCase(posts[i].id) = ToLowerCase(slug)
    THEN CHOOSE i \in 1..Len(posts) :
            /\ ToLowerCase(posts[i].id) = ToLowerCase(slug)
            /\ \A j \in 1..(i - 1) : ToLowerCase(posts[j].id) # ToLowerCase(slug)
    ELSE 0

\* FindPost, had the lookup skipped drafts (p.id === slug && p.published)
FindPostPublishedOnly(posts, slug) ==
    IF \E i \in 1..Len(posts) : posts[i].id = slug /\ posts[i].published
    THEN CHOOSE i \in 1..Len(posts) :
            /\ posts[i].id = slug /\ posts[i].published
            /\ \A j \in 1..(i - 1) : ~(posts[j].id = slug /\ posts[j].published)
    ELSE 0

\* blogPosts.find(p => p.id === slug): index of the first match, 0 for undefined
FindPost(posts, slug) ==
    IF \E i \in 1..Len(posts) : posts[i].id = slug
    THEN CHOOSE i \in 1..Len(posts) :
            /\ posts[i].id = slug
            /\ \A j \in 1..(i - 1) : posts[j].id # slug
    ELSE 0

\* the post the detail view resolves at a path (0 off the detail route)
PostAt(path) ==
    IF RouteMatch(path) = "BlogPostPage" THEN FindPost(blogPosts, SlugOf(path)) ELSE 0

\* const post = ... of the rendered detail view
post == PostAt(location)

\* EffectRuns, had the dependency list been []: it runs on mount only
EffectRunsOnMountOnly(mounting, oldPost, newPost) == mounting

\* EffectRuns, had the dependency list been left out: it runs after every render
EffectRunsEveryRender(mounting, oldPost, newPost) == TRUE

\* useEffect(..., [post]): the effect runs on mount and when post changes identity
EffectRuns(mounting, oldPost, newPost) == mounting \/ oldPost # newPost

\* if (post) { fetch(...) }
EffectFetches(newPost) == newPost # 0

\* `/blogs/${post.markdownFile}`
FetchUrl(p) == << <<"blogs">>, p.markdownFile >>

\* ThenHandler, had setLoading(false) been left out of it
ThenHandlerKeepsLoading(text) ==
    [markdownContent |-> text, loading |-> TRUE, threw |-> FALSE]

\* ThenHandler, had it normalised the text before storing it
ThenHandlerLowerCased(text) ==
    [markdownContent |-> ToLowerCase(text), loading |-> FALSE, threw |-> FALSE]

\* .then(text => { setMarkdownContent(text); setLoading(false); })
ThenHandler(text) ==
    [markdownContent |-> text, loading |-> FALSE, threw |-> FALSE]

\* CatchHandler, had it shown the error's message
CatchHandlerShowingError(error) ==
    [markdownContent |-> <<error>>, loading |-> FALSE, threw |-> FALSE]

\* .catch(error => { console.error(...); setMarkdownContent(fallback); setLoading(false); })
CatchHandler(error) ==
    [markdownContent |-> Fallback, loading |-> FALSE, threw |-> FALSE]

\* RendersNotFound, had the not-found block been kept for a view that has
\* loaded nothing (if (!post && !markdownContent) return ...)
RendersNotFoundUnlessLoaded ==
    RouteMatch(location) = "BlogPostPage" /\ post = 0 /\ markdownContent = <<>>

\* the page renders the not-found block: if (!post) return ...
RendersNotFound == RouteMatch(location) = "BlogPostPage" /\ post = 0

\* the page renders the article with the "Loading article..." placeholder
RendersLoading == RouteMatch(location) = "BlogPostPage" /\ post # 0 /\ loading

\* the page hands markdownContent to <ReactMarkdown>
RendersMarkdown == RouteMatch(location) = "BlogPostPage" /\ post # 0 /\ ~loading

\* the children of <ReactMarkdown>
RenderedMarkdown == markdownContent

\* RelatedPosts, had `p.id !== slug` been left out of the filter
RelatedPostsWithCurrent(posts, slug) ==
    LET Keep(p) == p.published
        kept == SelectSeq(posts, Keep)
    IN  SubSeq(kept, 1, IF Len(kept) < 3 THEN Len(kept) ELSE 3)

\* .filter(p => p.id !== slug && p.published).slice(0, 3)
RelatedPosts(posts, slug) ==
    LET Keep(p) == p.id # slug /\ p.published
        kept == SelectSeq(posts, Keep)
    IN  SubSeq(kept, 1, IF Len(kept) < 3 THEN Len(kept) ELSE 3)

\* state right after useState('') / useState(true), and of no mounted view
NoSource ==
    [kind |-> "initial", slug |-> Null, ok |-> TRUE, body |-> Null,
     current |-> FALSE]

\* ids not used by a fetch in flight
FreeIds == (1..MaxPending) \ {r.id : r \in pending}

\* fetch(url): a new promise chain, issued by the effect for post p of the table
RequestFor(id, posts, p) ==
    [id |-> id, slug |-> posts[p].id, url |-> FetchUrl(posts[p]),
     ok |-> TRUE, current |-> TRUE]

NewRequest(p) ==
    RequestFor(CHOOSE i \in FreeIds : \A j \in FreeIds : i <= j, blogPosts, p)

\* a chain started for the previous value of post
Stale(r) == [r EXCEPT !.current = FALSE]

(***************************************************************************)
(* A location change: the router re-renders, pages mount and unmount,      *)
(* and the detail view's effect runs.  Unmounting the detail view discards *)
(* its state; the handlers of its fetches still in flight then update a    *)
(* view that no longer exists, so those fetches leave `pending`.           *)
(***************************************************************************)
Navigate(path) ==
    LET from     == RouteMatch(location)
        to       == RouteMatch(path)
        mounting == to = "BlogPostPage" /\ from # "BlogPostPage"
        leaving  == from = "BlogPostPage" /\ to # "BlogPostPage"
        newPost  == PostAt(path)
        runs     == to = "BlogPostPage" /\ EffectRuns(mounting, post, newPost)
        fetches  == runs /\ EffectFetches(newPost)
        kept     == IF leaving THEN {}
                    ELSE IF to = "BlogPostPage" /\ SlugOf(path) # SlugOf(location)
                         THEN {Stale(r) : r \in pending}
                         ELSE pending
    IN  /\ fetches => FreeIds # {}
        /\ location' = path
        /\ IF to = "BlogPage" /\ from = "BlogPage"
           THEN UNCHANGED <<searchQuery, selectedTag>>
           ELSE searchQuery' = <<>> /\ selectedTag' = Null
        /\ IF mounting \/ leaving
           THEN markdownContent' = <<>> /\ loading' = TRUE /\ shown' = NoSource
           ELSE UNCHANGED <<markdownContent, loading, shown>>
        /\ pending' = IF fetches THEN kept \cup {NewRequest(newPost)} ELSE kept
        /\ UNCHANGED <<blogPosts, projects, uncaught>>


(***************************************************************************)
(* The projects page.                                                      *)
(***************************************************************************)
\* ProjectCards, had the demo link been guarded by project.github
ProjectCardsDemoByGithub(table) ==
    [i \in 1..Len(table) |->
        [key |-> table[i].id,
         featuredBadge |-> table[i].featured,
         viewCode |-> ~Falsy(table[i].github),
         liveDemo |-> ~Falsy(table[i].github)]]

\* projects.map(project => <Card key={project.id}> ... </Card>): the badge
\* under project.featured &&, the View Code link under project.github &&,
\* the Live Demo link under project.liveUrl &&
ProjectCards(table) ==
    [i \in 1..Len(table) |->
        [key |-> table[i].id,
         featuredBadge |-> table[i].featured,
         viewCode |-> ~Falsy(table[i].github),
         liveDemo |-> ~Falsy(table[i].liveUrl)]]

(***************************************************************************)
(* Links.                                                                  *)
(***************************************************************************)
\* Footer: the four <Link>s of the Navigation column
FooterLinks == {HomePath, AboutPath, BlogPath, ProjectsPath}

\* HomePage: blogPosts.filter(post => post.published).slice(0, 3)
FeaturedPosts(posts) ==
    LET Keep(p) == p.published
        kept == SelectSeq(posts, Keep)
    IN  SubSeq(kept, 1, IF Len(kept) < 3 THEN Len(kept) ELSE 3)

\* FeaturedProjects, had the filter on project.featured been left out
FeaturedProjectsUnfiltered(table) ==
    SubSeq(table, 1, IF Len(table) < 3 THEN Len(table) ELSE 3)

\* HomePage: projects.filter(project => project.featured).slice(0, 3)
FeaturedProjects(table) ==
    LET Keep(p) == p.featured
        kept == SelectSeq(table, Keep)
    IN  SubSeq(kept, 1, IF Len(kept) < 3 THEN Len(kept) ELSE 3)

\* HomePage: const featuredPosts, const featuredProjects
featuredPosts == FeaturedPosts(blogPosts)
featuredProjects == FeaturedProjects(projects)

\* HomePage: the <Link>s of the hero, the section headers and the post cards
HomeLinks ==
    {ProjectsPath, ContactPath, BlogPath}
        \cup {BlogPostPath(FeaturedPosts(blogPosts)[i].id) :
                i \in 1..Len(FeaturedPosts(blogPosts))}

\* Header: onClick={() => setIsMenuOpen(!isMenuOpen)}
ToggleMenu ==
    /\ isMenuOpen' = MenuAfterToggle(isMenuOpen)
    /\ oddToggles' = ~oddToggles
    /\ UNCHANGED <<blogPosts, projects, location, searchQuery, selectedTag,
                   markdownContent, loading, pending, shown, uncaught>>

\* Header: a nav <Link> with onClick={() => setIsMenuOpen(false)}
ClickNavLink(i) ==
    /\ isMenuOpen' = MenuAfterNavClick(isMenuOpen)
    /\ oddToggles' = FALSE
    /\ Navigate(navLinks[i])

\* Header: the logo <Link to="/">
ClickLogo ==
    /\ Navigate(HomePath)
    /\ isMenuOpen' = MenuAfterNavigation(isMenuOpen)
    /\ UNCHANGED oddToggles

\* Footer: a <Link> of the Navigation column
ClickFooterLink(path) ==
    /\ path \in FooterLinks
    /\ Navigate(path)
    /\ isMenuOpen' = MenuAfterNavigation(isMenuOpen)
    /\ UNCHANGED oddToggles

\* HomePage: one of its <Link>s
ClickHomeLink(path) ==
    /\ RouteMatch(location) = "HomePage"
    /\ path \in HomeLinks
    /\ Navigate(path)
    /\ isMenuOpen' = MenuAfterNavigation(isMenuOpen)
    /\ UNCHANGED oddToggles

\* BlogPage: the title or "Read More" <Link> of the i-th listed card
ClickReadMore(i) ==
    /\ RouteMatch(location) = "BlogPage"
    /\ i \in 1..Len(filteredPosts)
    /\ Navigate(BlogPostPath(filteredPosts[i].id))
    /\ isMenuOpen' = MenuAfterNavigation(isMenuOpen)
    /\ UNCHANGED oddToggles

\* BlogPostPage: "Back to Blog", offered by the article and by not-found
ClickBackToBlog ==
    /\ RouteMatch(location) = "BlogPostPage"
    /\ Navigate(BlogPath)
    /\ isMenuOpen' = MenuAfterNavigation(isMenuOpen)
    /\ UNCHANGED oddToggles

\* BlogPostPage: the i-th <Link> under "More Articles"
ClickRelatedPost(i) ==
    /\ RouteMatch(location) = "BlogPostPage"
    /\ post # 0
    /\ i \in 1..Len(RelatedPosts(blogPosts, SlugOf(location)))
    /\ Navigate(BlogPostPath(RelatedPosts(blogPosts, SlugOf(location))[i].id))
    /\ isMenuOpen' = MenuAfterNavigation(isMenuOpen)
    /\ UNCHANGED oddToggles

\* the browser's back / forward buttons: any path of the history
HistoryNavigate(path) ==
    /\ path \in Paths
    /\ Navigate(path)
    /\ isMenuOpen' = MenuAfterNavigation(isMenuOpen)
    /\ UNCHANGED oddToggles

(***************************************************************************)
(* Blog list view: its event handlers.                                     *)
(***************************************************************************)
\* onChange={(e) => setSearchQuery(e.target.value)}
SetSearchQuery(q) ==
    /\ RouteMatch(location) = "BlogPage"
    /\ q \in Queries
    /\ searchQuery' = q
    /\ UNCHANGED <<blogPosts, projects, location, isMenuOpen, oddToggles, selectedTag,
                   markdownContent, loading, pending, shown, uncaught>>

\* TagAfterClick, had the handler been setSelectedTag(tag)
TagAfterClickNoToggle(selected, tag) == tag

\* selectedTag === tag ? null : tag
TagAfterClick(selected, tag) == IF selected = tag THEN Null ELSE tag

\* the onClick of the badge rendered for `tag`:
\* () => setSelectedTag(selectedTag === tag ? null : tag)
OnTagClick(tag) ==
    /\ RouteMatch(location) = "BlogPage"
    /\ selectedTag' = TagAfterClick(selectedTag, tag)
    /\ UNCHANGED <<blogPosts, projects, location, isMenuOpen, oddToggles, searchQuery,
                   markdownContent, loading, pending, shown, uncaught>>

\* a click on the i-th badge of allTags.map(tag => <Badge onClick=...>)
ClickTag(i) ==
    /\ i \in 1..Len(allTags)
    /\ OnTagClick(allTags[i])

\* "All Topics": onClick={() => setSelectedTag(null)}
ClickAllTopics ==
    /\ RouteMatch(location) = "BlogPage"
    /\ selectedTag' = Null
    /\ UNCHANGED <<blogPosts, projects, location, isMenuOpen, oddToggles, searchQuery,
                   markdownContent, loading, pending, shown, uncaught>>

(***************************************************************************)
(* The promise chain fetch(url).then(r => r.text()).then(...).catch(...).  *)
(***************************************************************************)
\* a handler of the mounted view runs: the chain leaves `pending`, the two
\* state updates are applied, and the view re-renders with post unchanged, so
\* the effect runs again only if its dependency list says so
Settle(r, kind, body, h) ==
    /\ pending' = {q \in pending : q.id # r.id}
            \cup (IF EffectRuns(FALSE, post, post) /\ EffectFetches(post)
                  THEN {RequestFor(r.id, blogPosts, post)} ELSE {})
    /\ markdownContent' = h.markdownContent
    /\ loading' = h.loading
    /\ shown' = [kind |-> kind, slug |-> r.slug, ok |-> r.ok, body |-> body,
                 current |-> r.current]
    /\ UNCHANGED <<blogPosts, projects, location, isMenuOpen, oddToggles,
                   searchQuery, selectedTag>>

\* fetch resolves with a Response of any status, response.text() resolves
\* with its body, and the then handler runs
FetchFulfilled(r, ok, text) ==
    /\ r \in pending
    /\ Settle([r EXCEPT !.ok = ok], "fulfilled", text, ThenHandler(text))
    /\ uncaught' = (uncaught \/ ThenHandler(text).threw)

\* fetch rejects (transport error) or response.text() rejects (the body
\* cannot be read), and the catch handler runs
FetchRejected(r, error) ==
    /\ r \in pending
    /\ Settle(r, "rejected", Null, CatchHandler(error))
    /\ uncaught' = (uncaught \/ CatchHandler(error).threw)

(***************************************************************************)
(* Specifications.                                                         *)
(***************************************************************************)
\* the application loaded at `path` over the tables `posts` and `table`
LoadedWith(posts, table, path) ==
    LET p == IF RouteMatch(path) = "BlogPostPage" THEN FindPost(posts, SlugOf(path))
             ELSE 0
    IN  /\ blogPosts = posts
        /\ projects = table
        /\ location = path
        /\ isMenuOpen = FALSE
        /\ oddToggles = FALSE
        /\ searchQuery = <<>>
        /\ selectedTag = Null
        /\ markdownContent = <<>>
        /\ loading = TRUE
        /\ shown = NoSource
        /\ pending = IF RouteMatch(path) = "BlogPostPage"
                        /\ EffectRuns(TRUE, 0, p) /\ EffectFetches(p)
                     THEN {RequestFor(1, posts, p)} ELSE {}
        /\ uncaught = FALSE

\* the application loaded at `path` with the projects table as shipped
Loaded(posts, path) == LoadedWith(posts, ShippedProjects, path)

Init == \E posts \in Datasets : \E path \in Paths : Loaded(posts, path)

Next ==
    \/ ToggleMenu
    \/ \E i \in 1..Len(navLinks) : ClickNavLink(i)
    \/ ClickLogo
    \/ \E path \in FooterLinks : ClickFooterLink(path)
    \/ \E path \in HomeLinks : ClickHomeLink(path)
    \/ \E i \in 1..Len(blogPosts) : ClickReadMore(i)
    \/ ClickBackToBlog
    \/ \E i \in 1..3 : ClickRelatedPost(i)
    \/ \E path \in Paths : HistoryNavigate(path)
    \/ \E r \in pending : \E ok \in BOOLEAN : \E text \in Bodies :
            FetchFulfilled(r, ok, text)
    \/ \E r \in pending : \E e \in Errors : FetchRejected(r, e)

Spec == Init /\ [][Next]_vars

\* the blog list view on its own: the visitor edits the query and clicks tags
InitFilter == \E posts \in Datasets : Loaded(posts, BlogPath)

NextFilter ==
    \/ \E q \in Queries : SetSearchQuery(q)
    \/ \E i \in 1..Len(allTags) : ClickTag(i)
    \/ ClickAllTopics

SpecFilter == InitFilter /\ [][NextFilter]_vars

\* the promise chain with identity id settles: its fetch resolves or rejects
SettleRequest(id) ==
    \E r \in pending :
        /\ r.id = id
        /\ \/ \E ok \in BOOLEAN : \E text \in Bodies : FetchFulfilled(r, ok, text)
           \/ \E e \in Errors : FetchRejected(r, e)

\* every fetch in flight eventually settles
EveryFetchSettles == \A id \in 1..MaxPending : WF_vars(SettleRequest(id))

\* the application over the short table, under the assumption that every
\* fetch eventually settles
InitLive == \E path \in Paths : Loaded(ShortPosts, path)

SpecLive == InitLive /\ [][Next]_vars /\ EveryFetchSettles

\* the shell over any projects table: the visitor uses the header
InitProjects == \E table \in ProjectTables : LoadedWith(ShippedPosts, table, HomePath)

NextProjects ==
    \/ ToggleMenu
    \/ \E i \in 1..Len(navLinks) : ClickNavLink(i)

SpecProjects == InitProjects /\ [][NextProjects]_vars

\* the shell over any posts table and any table of featured and other
\* projects: the visitor uses the header
InitHome ==
    \E posts \in Datasets : \E table \in HomeProjectTables :
        LoadedWith(posts, table, HomePath)

NextHome ==
    \/ ToggleMenu
    \/ \E i \in 1..Len(navLinks) : ClickNavLink(i)
    \/ ClickLogo

SpecHome == InitHome /\ [][NextHome]_vars


(***************************************************************************)
(* Properties of the blog detail view's loader.                            *)
(***************************************************************************)
\* the detail route is shown with a slug that equals the id of no post
UnknownSlug ==
    /\ RouteMatch(location) = "BlogPostPage"
    /\ \A i \in 1..Len(blogPosts) : blogPosts[i].id # location[2]

\* the detail route is shown with a slug that equals the id of some post
MatchedSlug ==
    /\ RouteMatch(location) = "BlogPostPage"
    /\ \E i \in 1..Len(blogPosts) : blogPosts[i].id = location[2]

\* the fetches a step issues: those in flight after it and not before it
Issued == {r \in pending' : \A q \in pending : q.id # r.id}

\* C1: whenever the slug of the detail view equals no post id, the view
\* renders "Article Not Found" and no fetch has been issued for that slug:
\* a step that arrives at the unknown slug issues nothing, and anything still
\* in flight belongs to a slug viewed before.
C1_UnknownSlugNoFetch ==
    /\ [](UnknownSlug =>
            /\ RendersNotFound
            /\ \A r \in pending : ~r.current /\ r.slug # location[2])
    /\ [][UnknownSlug' => (RendersNotFound' /\ Issued = {})]_vars

\* C1 witness: the visitor went from a matched slug, its fetch still in
\* flight, to an unknown slug
C1_Witness == UnknownSlug /\ RendersNotFound /\ pending # {}

\* C2 (as claimed): while the fetch for the current slug's document has not
\* settled, the view reports loading and shows no content of an earlier slug.
C2_LoadingWhileCurrentFetchPending ==
    (MatchedSlug /\ \E r \in pending : r.current) =>
        (RendersLoading /\ ~RendersMarkdown)

\* C3 (as claimed): the body of a response with a non-success status is never
\* displayed; such a response ends in the fallback body.
C3_NonSuccessShowsFallback ==
    (shown.kind = "fulfilled" /\ ~shown.ok) => RenderedMarkdown = Fallback

\* C4: after the fetch was rejected, nothing escaped the promise chain,
\* loading is false and the content is the fixed fallback message, whatever
\* the error was.
C4_RejectionShowsFallback ==
    /\ ~uncaught
    /\ shown.kind = "rejected" =>
          (~loading /\ RenderedMarkdown = Fallback /\ markdownContent = Fallback)

\* C4 witness: a rejected fetch of the post on screen
C4_Witness == shown.kind = "rejected" /\ MatchedSlug /\ RendersMarkdown

\* the detail view was mounted by the step, or its slug changed in the step
ArrivesAtSlug ==
    /\ RouteMatch(location') = "BlogPostPage"
    /\ RouteMatch(location) = "BlogPostPage" => location'[2] # location[2]

\* C5: a step that mounts the detail view with, or changes it to, a slug
\* matching a post issues exactly one fetch, addressed to /blogs/<markdownFile>
\* of the post with that id; every other step issues none (no retry after a
\* failure, no re-fetch after the response's own state updates).  The view
\* mounted at load has issued exactly that one fetch as well.
C5_OneFetchPerArrival ==
    /\ IF MatchedSlug
       THEN \E r \in pending :
               /\ pending = {r}
               /\ \E i \in 1..Len(blogPosts) :
                     /\ blogPosts[i].id = location[2]
                     /\ r.url = << <<"blogs">>, blogPosts[i].markdownFile >>
       ELSE pending = {}
    /\ [][IF ArrivesAtSlug /\ MatchedSlug'
          THEN \E r \in pending' :
                  /\ Issued = {r}
                  /\ \E i \in 1..Len(blogPosts) :
                        /\ blogPosts[i].id = location'[2]
                        /\ r.url = << <<"blogs">>, blogPosts[i].markdownFile >>
          ELSE Issued = {}]_vars

\* C5 witness: the slug changed to another matched post (a second fetch is in
\* flight) after a fetch of the view had failed
C5_Witness ==
    /\ MatchedSlug
    /\ shown.kind = "rejected"
    /\ \E r \in pending : r.current /\ r.slug # shown.slug

\* C6: once the fetch for the current matched post has succeeded, loading is
\* false and the string handed to the markdown renderer is the response text.
C6_SuccessShowsResponseText ==
    (shown.kind = "fulfilled" /\ shown.current) =>
        (~loading /\ RenderedMarkdown = shown.body)

\* C6 witness: a successful fetch of the post on screen, with a body that
\* has upper-case characters
C6_Witness ==
    /\ MatchedSlug
    /\ RendersMarkdown
    /\ shown.kind = "fulfilled" /\ shown.current /\ shown.ok
    /\ shown.body = <<"A", "b">>


(***************************************************************************)
(* Properties of the blog list view.                                       *)
(***************************************************************************)
\* the posts of a list, as a set
Listed(list) == {list[i] : i \in 1..Len(list)}

\* q occurs in s when letter case is ignored: at some offset every character
\* of q equals the character of s there, up to case
ContainsIgnoringCase(s, q) ==
    \E off \in 0..(Len(s) - Len(q)) :
        \A j \in 1..Len(q) : Lower(s[off + j]) = Lower(q[j])

\* C7: whatever the query and the selected tag, no post with
\* published = false is in the filtered list.
C7_NoDraftListed ==
    \A i \in 1..Len(filteredPosts) : filteredPosts[i].published

\* C7 witness: a draft whose title contains the typed query and which
\* carries the selected tag
C7_Witness ==
    /\ searchQuery # <<>>
    /\ selectedTag # Null
    /\ \E i \in 1..Len(blogPosts) :
          /\ ~blogPosts[i].published
          /\ ContainsIgnoringCase(blogPosts[i].title, searchQuery)
          /\ \E k \in 1..Len(blogPosts[i].tags) : blogPosts[i].tags[k] = selectedTag

\* the published posts, in table order, whose title or excerpt contains q
\* ignoring case
PublishedContaining(q) ==
    LET Wanted(p) ==
            /\ p.published
            /\ \/ ContainsIgnoringCase(p.title, q)
               \/ ContainsIgnoringCase(p.excerpt, q)
    IN  SelectSeq(blogPosts, Wanted)

\* the published posts, in table order
PublishedPosts ==
    LET Wanted(p) == p.published
    IN  SelectSeq(blogPosts, Wanted)

\* C8: with no tag selected the filtered list is the published posts whose
\* title or excerpt contains the query ignoring case; with the empty query
\* it is all published posts in table order.
C8_QueryOnly ==
    selectedTag = Null =>
        /\ filteredPosts = PublishedContaining(searchQuery)
        /\ searchQuery = <<>> => filteredPosts = PublishedPosts

\* C8 witness: a query with an upper-case letter that matches one published
\* post by its title only, another by its excerpt only, and not a third
C8_Witness ==
    /\ selectedTag = Null
    /\ \E k \in 1..Len(searchQuery) : searchQuery[k] \in {"A", "B"}
    /\ \E i, j, n \in 1..Len(blogPosts) :
          /\ blogPosts[i] \in Listed(filteredPosts)
          /\ ContainsIgnoringCase(blogPosts[i].title, searchQuery)
          /\ ~ContainsIgnoringCase(blogPosts[i].excerpt, searchQuery)
          /\ blogPosts[j] \in Listed(filteredPosts)
          /\ ~ContainsIgnoringCase(blogPosts[j].title, searchQuery)
          /\ ContainsIgnoringCase(blogPosts[j].excerpt, searchQuery)
          /\ blogPosts[n].published
          /\ blogPosts[n] \notin Listed(filteredPosts)

\* the published posts, in table order, with t among their tag labels
PublishedTagged(t) ==
    LET Wanted(p) == p.published /\ \E k \in 1..Len(p.tags) : p.tags[k] = t
    IN  SelectSeq(blogPosts, Wanted)

\* C9: with the empty query and a tag of the dataset selected, the filtered
\* list is the published posts whose tag list holds exactly that label.
C9_TagOnly ==
    (searchQuery = <<>> /\ selectedTag # Null) =>
        filteredPosts = PublishedTagged(selectedTag)

\* C9 witness: the selected tag differs only in case from a tag of a
\* published post that is not listed
C9_Witness ==
    /\ searchQuery = <<>>
    /\ selectedTag # Null
    /\ filteredPosts # <<>>
    /\ \E i \in 1..Len(blogPosts) :
          /\ blogPosts[i].published
          /\ blogPosts[i] \notin Listed(filteredPosts)
          /\ \E k \in 1..Len(blogPosts[i].tags) :
                /\ blogPosts[i].tags[k] # selectedTag
                /\ ToLowerCase(blogPosts[i].tags[k]) = ToLowerCase(selectedTag)

\* C10: with a query and a tag applied together, the filtered list is the
\* query-only list restricted to the posts of the tag-only list.
C10_QueryAndTag ==
    LET queryOnly == FilterPosts(blogPosts, searchQuery, Null)
        tagOnly   == FilterPosts(blogPosts, <<>>, selectedTag)
        InTagOnly(p) == p \in Listed(tagOnly)
    IN  filteredPosts = SelectSeq(queryOnly, InTagOnly)

\* C10 witness: a query and a tag are both set, each alone lists a post the
\* other does not, and together they list some post
C10_Witness ==
    LET queryOnly == Listed(FilterPosts(blogPosts, searchQuery, Null))
        tagOnly   == Listed(FilterPosts(blogPosts, <<>>, selectedTag))
    IN  /\ searchQuery # <<>>
        /\ selectedTag # Null
        /\ queryOnly \ tagOnly # {}
        /\ tagOnly \ queryOnly # {}
        /\ filteredPosts # <<>>


\* C11: for every query and tag the filtered list is a subsequence of the
\* table: its posts can be found at strictly increasing positions of
\* blogPosts, so listed posts keep their table order and none is listed twice.
C11_FilteredIsSubsequence ==
    \E at \in [1..Len(filteredPosts) -> 1..Len(blogPosts)] :
        /\ \A i \in 1..Len(filteredPosts) : blogPosts[at[i]] = filteredPosts[i]
        /\ \A i, j \in 1..Len(filteredPosts) : i < j => at[i] < at[j]

\* C11 witness: a query and a tag are set, two or more posts are listed, and
\* a post of the table between two listed ones is left out
C11_Witness ==
    /\ searchQuery # <<>>
    /\ selectedTag # Null
    /\ Len(filteredPosts) >= 2
    /\ \E i, j, k \in 1..Len(blogPosts) :
          /\ i < j /\ j < k
          /\ blogPosts[i] \in Listed(filteredPosts)
          /\ blogPosts[j] \notin Listed(filteredPosts)
          /\ blogPosts[k] \in Listed(filteredPosts)


(***************************************************************************)
(* Properties of the detail view's "More Articles" list.                   *)
(***************************************************************************)
\* the list under "More Articles" of the article on screen
moreArticles == RelatedPosts(blogPosts, SlugOf(location))

\* table positions of the published posts other than the one with slug S
OtherPublished(S) ==
    {i \in 1..Len(blogPosts) : blogPosts[i].id # S /\ blogPosts[i].published}

\* C12: for the slug S of the article on screen, "More Articles" lists the
\* first three table entries with id # S and published = true, in table
\* order: the k-th listed post is the qualifying post with k - 1 qualifying
\* posts before it, and the list is as long as min(3, number qualifying).  So
\* it never holds S or a draft and is never padded.
C12_MoreArticles ==
    MatchedSlug =>
        LET S == location[2]
            n == Cardinality(OtherPublished(S))
        IN  /\ Len(moreArticles) = IF n < 3 THEN n ELSE 3
            /\ \A k \in 1..Len(moreArticles) :
                  \E i \in OtherPublished(S) :
                      /\ moreArticles[k] = blogPosts[i]
                      /\ Cardinality({j \in OtherPublished(S) : j < i}) = k - 1
            /\ \A k \in 1..Len(moreArticles) :
                  moreArticles[k].id # S /\ moreArticles[k].published

\* C12 witness: the table holds a draft other than the article on screen,
\* and more than three other posts qualify, so the list is cut to three
C12_Witness ==
    /\ MatchedSlug
    /\ \E i \in 1..Len(blogPosts) :
          ~blogPosts[i].published /\ blogPosts[i].id # location[2]
    /\ Cardinality(OtherPublished(location[2])) > 3
    /\ Len(moreArticles) = 3


(***************************************************************************)
(* Drafts and direct navigation.                                           *)
(***************************************************************************)
\* the detail route is shown with the id of a post with published = false
DraftSlug ==
    /\ RouteMatch(location) = "BlogPostPage"
    /\ \E i \in 1..Len(blogPosts) :
          blogPosts[i].id = location[2] /\ ~blogPosts[i].published

\* the fetch r asks for the markdown file of the draft with id S
FetchesDraft(r, S) ==
    \E i \in 1..Len(blogPosts) :
        /\ blogPosts[i].id = S /\ ~blogPosts[i].published
        /\ r.url = << <<"blogs">>, blogPosts[i].markdownFile >>

\* C13: a draft stays reachable by its slug: whenever the slug is the id of a
\* post with published = false the view renders that post (not "Article Not
\* Found"), and arriving at the slug, at load or by navigation, issues the
\* fetch of that post's markdown file.
C13_DraftReachableBySlug ==
    /\ DraftSlug => \E r \in pending : pending = {r} /\ FetchesDraft(r, location[2])
    /\ [](DraftSlug =>
            /\ ~RendersNotFound
            /\ post # 0
            /\ blogPosts[post].id = location[2]
            /\ ~blogPosts[post].published)
    /\ [][(ArrivesAtSlug /\ DraftSlug') =>
            \E r \in pending' : Issued = {r} /\ FetchesDraft(r, location'[2])]_vars

\* C13 witness: the visitor navigated to a draft's slug and its document was
\* fetched and is rendered
C13_Witness ==
    /\ DraftSlug
    /\ RendersMarkdown
    /\ shown.kind = "fulfilled" /\ shown.ok /\ shown.current
    /\ shown.slug = location[2]


(***************************************************************************)
(* Properties of the blog list view's tag vocabulary and empty state.      *)
(***************************************************************************)
\* the labels on the tag list of the i-th post of the table
TagsOfPost(i) == {blogPosts[i].tags[k] : k \in 1..Len(blogPosts[i].tags)}

\* C14: whatever the query and the selected tag, the tags offered are the
\* labels carried by some post of the table, draft or not, each offered once.
C14_TagVocabulary ==
    /\ Listed(allTags) = UNION {TagsOfPost(i) : i \in 1..Len(blogPosts)}
    /\ \A i, j \in 1..Len(allTags) : i # j => allTags[i] # allTags[j]

\* C14 witness: a query is typed, a tag is selected, some label is carried by
\* two posts, and an offered label is carried by drafts only
C14_Witness ==
    /\ searchQuery # <<>>
    /\ selectedTag # Null
    /\ \E i, j \in 1..Len(blogPosts) :
          i # j /\ TagsOfPost(i) \cap TagsOfPost(j) # {}
    /\ \E t \in Listed(allTags) :
          \A i \in 1..Len(blogPosts) :
              t \in TagsOfPost(i) => ~blogPosts[i].published


\* BlogPage, had the ternary tested the table instead of the filtered list
RendersNoResultsOnEmptyTable ==
    RouteMatch(location) = "BlogPage" /\ ~(Len(blogPosts) > 0)

\* BlogPage: filteredPosts.length > 0 ? cards : <div className="no-results">
RendersNoResults ==
    RouteMatch(location) = "BlogPage" /\ ~(Len(filteredPosts) > 0)

\* BlogPage: the posts of the <Card>s in the blog-list region
RenderedCards ==
    IF RouteMatch(location) = "BlogPage" /\ ~RendersNoResults
    THEN filteredPosts ELSE <<>>

\* C15: the blog list view shows the "no results" message exactly when the
\* filtered list is empty: never an empty region without the message, never
\* the message next to post cards.
C15_NoResultsIffEmpty ==
    RouteMatch(location) = "BlogPage" =>
        /\ RendersNoResults <=> filteredPosts = <<>>
        /\ RendersNoResults \/ RenderedCards # <<>>
        /\ ~(RendersNoResults /\ RenderedCards # <<>>)
        /\ ~RendersNoResults => RenderedCards = filteredPosts

\* C15 witness: a typed query and a selected tag that no published post
\* satisfies together, though the table has published posts
C15_Witness ==
    /\ RendersNoResults
    /\ searchQuery # <<>>
    /\ selectedTag # Null
    /\ PublishedPosts # <<>>


(***************************************************************************)
(* Properties of the header and the route table.                           *)
(***************************************************************************)
\* C16: a header nav entry is marked active exactly when its path is the
\* current location path, segment for segment; on /blog/<slug> no entry is
\* active, /blog included.
C16_ActiveIffExactPath ==
    /\ \A i \in 1..Len(navLinks) :
          i \in ActiveNavLinks <=>
              /\ Len(navLinks[i]) = Len(location)
              /\ \A k \in 1..Len(location) : navLinks[i][k] = location[k]
    /\ RouteMatch(location) = "BlogPostPage" => ActiveNavLinks = {}

\* C16 witness: an article is on screen at /blog/<slug>
C16_Witness ==
    /\ RouteMatch(location) = "BlogPostPage"
    /\ Len(location) = 2 /\ location[1] = BlogPath[1]
    /\ MatchedSlug
    /\ RendersMarkdown

(***************************************************************************)
(* The mobile menu.                                                        *)
(***************************************************************************)
\* C17: the mobile menu is one boolean that starts closed; each toggle flips
\* it and a click on any of the five nav links leaves it closed, so it is
\* open exactly when an odd number of toggles followed the last nav-link
\* click (or the start).
C17_MenuOpenIffOddToggles ==
    /\ isMenuOpen \in BOOLEAN
    /\ Len(navLinks) = 5
    /\ isMenuOpen <=> oddToggles

\* C17 witness: the menu is open on a page only a link leads to, after an
\* odd number of toggles
C17_Witness ==
    /\ isMenuOpen
    /\ oddToggles
    /\ location = ContactPath

(***************************************************************************)
(* The route table.                                                        *)
(***************************************************************************)
\* the page view rendered inside <main>, "none" when there is none
RenderedPage == RouteMatch(location)

\* C18: the route table has six entries and each dispatches to its own page
\* view: / to HomePage, /about to AboutPage, /blog to BlogPage (the list,
\* never the detail view), /blog/<slug> to BlogPostPage, /projects to
\* ProjectsPage, /contact to ContactPage; no other page view is dispatched.
C18_RouteTable ==
    /\ RenderedPage \in {"HomePage", "AboutPage", "BlogPage", "BlogPostPage",
                         "ProjectsPage", "ContactPage", "none"}
    /\ RenderedPage = "HomePage" <=> location = << >>
    /\ RenderedPage = "AboutPage" <=> location = << <<"about">> >>
    /\ RenderedPage = "BlogPage" <=> location = << <<"blog">> >>
    /\ RenderedPage = "BlogPostPage" <=>
          (Len(location) = 2 /\ location[1] = <<"blog">>)
    /\ RenderedPage = "ProjectsPage" <=> location = << <<"projects">> >>
    /\ RenderedPage = "ContactPage" <=> location = << <<"contact">> >>

\* C18 witness: the location is /blog, reached with the menu open, and the
\* list view is what is rendered
C18_Witness ==
    /\ location = << <<"blog">> >>
    /\ RenderedPage = "BlogPage"
    /\ isMenuOpen

(***************************************************************************)
(* The projects page.                                                      *)
(***************************************************************************)
\* the cards on screen, none off the projects page
RenderedProjectCards ==
    IF RenderedPage = "ProjectsPage" THEN ProjectCards(projects) ELSE <<>>

\* C19: the projects page renders one card per project record, in dataset
\* order and with no filtering; a card has the source-code link iff the
\* project's github URL is non-null and the live-demo link iff its liveUrl
\* is non-null.
C19_OneCardPerProject ==
    RenderedPage = "ProjectsPage" =>
        /\ Len(RenderedProjectCards) = Len(projects)
        /\ \A i \in 1..Len(projects) :
              /\ RenderedProjectCards[i].key = projects[i].id
              /\ RenderedProjectCards[i].viewCode <=> projects[i].github # Null
              /\ RenderedProjectCards[i].liveDemo <=> projects[i].liveUrl # Null

\* C19 witness: the projects page over a table with a project that has a
\* demo and no repository, one that has a repository and no demo, and one
\* that is not featured
C19_Witness ==
    /\ RenderedPage = "ProjectsPage"
    /\ \E i \in 1..Len(projects) :
          projects[i].github = Null /\ projects[i].liveUrl # Null
    /\ \E i \in 1..Len(projects) :
          projects[i].github # Null /\ projects[i].liveUrl = Null
    /\ \E i \in 1..Len(projects) : ~projects[i].featured
    /\ Len(RenderedProjectCards) = MaxProjects

(***************************************************************************)
(* Late responses.                                                         *)
(***************************************************************************)
\* C20 (as claimed): a response for a slug left while its fetch was in flight
\* is discarded: once every fetch of the view has settled, the content on
\* screen was written by the fetch issued for the current slug.
C20_LateResultDiscarded ==
    (MatchedSlug /\ pending = {}) =>
        (shown.kind # "initial" /\ shown.current /\ shown.slug = location[2])

(***************************************************************************)
(* Termination of the loader.                                              *)
(***************************************************************************)
\* C21: a detail view with a matched slug that is loading has its fetch in
\* flight, and when every fetch eventually settles it eventually leaves the
\* loading state; from then on, while it stays mounted, it never returns to
\* loading and shows the fetched text or the fallback message.
C21_LoadingEnds ==
    /\ [](RendersLoading =>
            \E r \in pending : r.current /\ r.slug = location[2])
    /\ (RendersLoading ~> ~RendersLoading)
    /\ [][(~loading /\ RouteMatch(location) = "BlogPostPage"
              /\ RouteMatch(location') = "BlogPostPage") => ~loading']_vars
    /\ [](RendersMarkdown =>
            \/ shown.kind = "fulfilled" /\ RenderedMarkdown = shown.body
            \/ shown.kind = "rejected" /\ RenderedMarkdown = Fallback)

\* C21 witness: every fetch of the view has settled, the last one for the
\* post on screen, and the view shows its text
C21_Witness ==
    /\ MatchedSlug
    /\ pending = {}
    /\ ~RendersLoading
    /\ RendersMarkdown
    /\ shown.kind = "fulfilled" /\ shown.slug = location[2]
    /\ RenderedMarkdown = shown.body

(***************************************************************************)
(* Recovery from the error states.                                         *)
(***************************************************************************)
\* the detail view shows the fallback message of a rejected fetch
FetchFailure == RendersMarkdown /\ shown.kind = "rejected"

\* the browser can take the application to `path`
Navigable(path) == ENABLED (HistoryNavigate(path) /\ location' = path)

\* the fetch in flight for the post on screen can succeed with `text`, and the
\* view then shows that text
CanReachReady(text) ==
    \E r \in pending :
        /\ r.current /\ r.slug = location[2]
        /\ ENABLED (/\ FetchFulfilled(r, TRUE, text)
                    /\ RouteMatch(location') = "BlogPostPage"
                    /\ ~loading'
                    /\ markdownContent' = text)

\* C22: no error is fatal to the shell.  Nothing escapes the promise chain;
\* from not-found and from a failed fetch every path and every nav link can
\* be navigated to; a step from either state to a matched slug issues the
\* fetch of that post's document; and a view whose fetch is in flight can
\* reach ready with the text of the response.
C22_NoErrorIsFatal ==
    /\ [](~uncaught)
    /\ []((RendersNotFound \/ FetchFailure) =>
            /\ \A i \in 1..Len(navLinks) : ENABLED ClickNavLink(i)
            /\ \A path \in Paths :
                  (PostAt(path) # 0 /\ SlugOf(path) # SlugOf(location)
                        => FreeIds # {})
                    => Navigable(path))
    /\ [][((RendersNotFound \/ FetchFailure) /\ ArrivesAtSlug /\ MatchedSlug') =>
            \E r \in Issued :
                /\ r.current /\ r.slug = location'[2]
                /\ \E i \in 1..Len(blogPosts) :
                      /\ blogPosts[i].id = location'[2]
                      /\ r.url = << <<"blogs">>, blogPosts[i].markdownFile >>]_vars
    /\ []((MatchedSlug /\ \E r \in pending : r.current) =>
            \A text \in Bodies : CanReachReady(text))

\* C22 witness: after a failed fetch the visitor moved on to another matched
\* post, whose fetch is in flight and can succeed
C22_Witness ==
    /\ MatchedSlug
    /\ shown.kind = "rejected"
    /\ RenderedMarkdown = Fallback
    /\ \E r \in pending : r.current /\ r.slug = location[2] /\ r.slug # shown.slug
    /\ CanReachReady(<<"A", "b">>)

(***************************************************************************)
(* Drafts and the tag vocabulary.                                          *)
(***************************************************************************)
\* C23 (as claimed): a tag carried only by posts with published = false is
\* never offered as a filter choice: every offered tag is carried by some
\* published post.
C23_DraftOnlyTagNotOffered ==
    \A k \in 1..Len(allTags) :
        \E i \in 1..Len(blogPosts) :
            /\ blogPosts[i].published
            /\ \E j \in 1..Len(blogPosts[i].tags) : blogPosts[i].tags[j] = allTags[k]

(***************************************************************************)
(* The home page.                                                          *)
(***************************************************************************)
\* the cards of the "Latest Articles" section, none off the home page
LatestArticles == IF RenderedPage = "HomePage" THEN featuredPosts ELSE <<>>

\* the cards of the "Featured Projects" section, none off the home page
FeaturedProjectCards == IF RenderedPage = "HomePage" THEN featuredProjects ELSE <<>>

\* list is the first three records of table, in table order, that satisfy
\* Wanted, or all of them when there are fewer than three
FirstThree(list, table, Wanted(_)) ==
    LET wanted == {i \in 1..Len(table) : Wanted(table[i])}
        Before(i) == Cardinality({j \in wanted : j < i})
    IN  /\ Len(list) = IF Cardinality(wanted) < 3 THEN Cardinality(wanted) ELSE 3
        /\ \A k \in 1..Len(list) :
              \E i \in wanted : table[i] = list[k] /\ Before(i) = k - 1

\* C24: on the home page "Latest Articles" shows exactly the first three
\* published posts in dataset order (fewer if fewer exist) and never an
\* unpublished post, and "Featured Projects" shows exactly the first three
\* projects with featured = true in dataset order.
C24_HomeSections ==
    RenderedPage = "HomePage" =>
        LET IsPublished(p) == p.published
            IsFeatured(p) == p.featured
        IN  /\ FirstThree(LatestArticles, blogPosts, IsPublished)
            /\ \A k \in 1..Len(LatestArticles) : LatestArticles[k].published
            /\ FirstThree(FeaturedProjectCards, projects, IsFeatured)

\* C24 witness: the home page over a posts table that opens with a draft and
\* has more than three published posts, and a projects table with three
\* featured projects and another one in front of the third
C24_Witness ==
    /\ RenderedPage = "HomePage"
    /\ ~blogPosts[1].published
    /\ Len(PublishedPosts) > 3
    /\ Len(LatestArticles) = 3
    /\ Len(FeaturedProjectCards) = 3
    /\ \E i \in 1..Len(projects) :
          ~projects[i].featured /\ i < FeaturedProjectCards[3].id
    /\ isMenuOpen

(***************************************************************************)
(* Tag selection.                                                          *)
(***************************************************************************)
\* every outcome of action A leaves the blog list with selected tag `tag`
\* and search query `query`, and A can be taken
Yields(A, tag, query) ==
    /\ ENABLED (A /\ selectedTag' = tag /\ searchQuery' = query)
    /\ ~ENABLED (A /\ ~(selectedTag' = tag /\ searchQuery' = query))

\* C25: the blog list holds at most one selected tag, which is null or a
\* member of the tag vocabulary.  Clicking an unselected tag selects that
\* tag, clicking the selected tag clears the selection, and "All Topics"
\* clears it; none of these clicks changes the search query, and editing the
\* query never changes the selected tag.
C25_SingleTagSelection ==
    RouteMatch(location) = "BlogPage" =>
        /\ selectedTag = Null \/ \E k \in 1..Len(allTags) : allTags[k] = selectedTag
        /\ \A tag \in {allTags[i] : i \in 1..Len(allTags)} :
              IF tag = selectedTag
              THEN Yields(OnTagClick(tag), Null, searchQuery)
              ELSE Yields(OnTagClick(tag), tag, searchQuery)
        /\ Yields(ClickAllTopics, Null, searchQuery)
        /\ \A q \in Queries : Yields(SetSearchQuery(q), selectedTag, q)

\* C25 witness: a tag is selected while a query is typed in, so that a click
\* on it clears the selection and a click on another tag replaces it
C25_Witness ==
    /\ RouteMatch(location) = "BlogPage"
    /\ searchQuery # <<>>
    /\ \E i, j \in 1..Len(allTags) : allTags[i] = selectedTag /\ allTags[j] # selectedTag
    /\ filteredPosts # <<>>

(***************************************************************************)
(* Not-found and late responses.                                           *)
(***************************************************************************)
\* a fetch of the mounted detail view settles in the step
Settles == shown' # shown /\ location' = location

\* C26: on the detail route not-found is rendered exactly when the slug
\* matches no post, whatever loading and the loaded content are; a response
\* for an earlier slug that settles while the slug is unknown leaves
\* not-found on screen and puts no article content there.
C26_NotFoundBySlugAlone ==
    /\ [](RouteMatch(location) = "BlogPostPage" =>
            /\ RendersNotFound <=> UnknownSlug
            /\ UnknownSlug => (~RendersMarkdown /\ ~RendersLoading))
    /\ [][(UnknownSlug /\ Settles) =>
            (RendersNotFound' /\ ~RendersMarkdown' /\ ~RendersLoading')]_vars

\* C26 witness: at an unknown slug, the response for an earlier matched slug
\* has settled after that slug was left, and the loader holds its text
C26_Witness ==
    /\ UnknownSlug
    /\ RendersNotFound
    /\ shown.kind = "fulfilled" /\ ~shown.current
    /\ ~loading
    /\ markdownContent = <<"A", "b">>
    /\ pending = {}

(***************************************************************************)
(* Unmatched paths.                                                        *)
(***************************************************************************)
\* the location is none of /, /about, /blog, /projects, /contact and is not
\* of the form /blog/<slug>
NoRouteMatches ==
    /\ location \notin {<<>>, << <<"about">> >>, << <<"blog">> >>,
                        << <<"projects">> >>, << <<"contact">> >>}
    /\ ~(Len(location) = 2 /\ location[1] = <<"blog">> /\ location[2] # <<>>)

\* C27: at a path that matches none of the six routes no page view is
\* rendered and no article fetch is in flight, the header and the footer
\* still work (the toggle, every nav link and every footer link can be
\* clicked), and no header nav entry is active.
C27_UnmatchedPath ==
    NoRouteMatches =>
        /\ RenderedPage = "none"
        /\ pending = {}
        /\ ~RendersNotFound /\ ~RendersLoading /\ ~RendersMarkdown
        /\ ActiveNavLinks = {}
        /\ ENABLED ToggleMenu
        /\ \A i \in 1..Len(navLinks) : ENABLED ClickNavLink(i)
        /\ \A path \in FooterLinks : ENABLED ClickFooterLink(path)

\* C27 witness: the visitor is at /blog/a/edit, below a post's path, with
\* the menu opened there
C27_Witness ==
    /\ NoRouteMatches
    /\ location = << <<"blog">>, <<"a">>, <<"edit">> >>
    /\ \E i \in 1..Len(blogPosts) : blogPosts[i].id = location[2]
    /\ isMenuOpen

(***************************************************************************)
(* The menu flag across navigation.                                        *)
(***************************************************************************)
\* no outcome of action A changes the menu flag
MenuKept(A) == ~ENABLED (A /\ isMenuOpen' # isMenuOpen)

\* C28: the menu flag changes only through the toggle and the five nav
\* links.  The logo link, the footer links, the links of the pages ("Read
\* More", "Back to Blog", the home page's and the related posts' links), a
\* route or slug change through the history and a settling fetch all leave
\* it as it is, so an open menu stays open across them.
C28_MenuKeptAcrossNavigation ==
    /\ ENABLED (ClickLogo /\ isMenuOpen' = isMenuOpen)
    /\ MenuKept(ClickLogo)
    /\ \A path \in FooterLinks : MenuKept(ClickFooterLink(path))
    /\ \A path \in HomeLinks : MenuKept(ClickHomeLink(path))
    /\ \A i \in 1..Len(blogPosts) : MenuKept(ClickReadMore(i))
    /\ MenuKept(ClickBackToBlog)
    /\ \A i \in 1..3 : MenuKept(ClickRelatedPost(i))
    /\ \A path \in Paths : MenuKept(HistoryNavigate(path))
    /\ \A r \in pending :
          /\ \A ok \in BOOLEAN : \A text \in Bodies : MenuKept(FetchFulfilled(r, ok, text))
          /\ \A e \in Errors : MenuKept(FetchRejected(r, e))

\* C28 witness: the menu is open on an article, and "Back to Blog" leads to
\* the list with the menu still open
C28_Witness ==
    /\ isMenuOpen
    /\ RouteMatch(location) = "BlogPostPage"
    /\ ENABLED (ClickBackToBlog /\ isMenuOpen' /\ location' = BlogPath)

(***************************************************************************)
(* Slug resolution.                                                        *)
(***************************************************************************)
\* the posts whose id equals the slug of the detail route
Matching == {i \in 1..Len(blogPosts) : blogPosts[i].id = location[2]}

\* C29: post ids are pairwise distinct, so at most one post matches a slug,
\* and the post the detail view resolves is the one post whose id equals the
\* slug (none is resolved when no id equals it).
C29_SlugResolutionUnambiguous ==
    /\ \A i, j \in 1..Len(blogPosts) :
          blogPosts[i].id = blogPosts[j].id => i = j
    /\ RouteMatch(location) = "BlogPostPage" =>
          /\ Cardinality(Matching) <= 1
          /\ Matching = IF post = 0 THEN {} ELSE {post}

\* C29 witness: the slug is the id of one post and differs only in letter
\* case from the id of another
C29_Witness ==
    /\ RouteMatch(location) = "BlogPostPage"
    /\ post # 0
    /\ Matching = {post}
    /\ \E j \in 1..Len(blogPosts) :
          j # post /\ ToLowerCase(blogPosts[j].id) = ToLowerCase(location[2])

====
